---- MODULE Spec2Model ----
(***************************************************************************)
(* Model of the worker pool (src/src/thread_pool.rs) and of the dispatch   *)
(* loop, job closure, cancellation flag, status registry and result        *)
(* collector of src/src/main.rs.                                           *)
(*                                                                         *)
(* Two programs drive the pool:                                            *)
(*   PoolSpec  - a single owner thread calling new / execute / resize /    *)
(*               shutdown / drop in any order, with opaque jobs;           *)
(*   MainSpec  - fn main of main.rs, whose jobs are the closure of         *)
(*               main.rs:108-148.                                          *)
(* Both share the pool's methods and the worker loop.                      *)
(***************************************************************************)
EXTENDS Integers, Sequences, FiniteSets, TLC

\* ---------------------------------------------------------------- bounds
MaxSize   == 3      \* largest size passed to new / resize
MaxSpawn  == 4      \* worker threads spawned over the whole run
MaxJobs   == 2      \* execute calls of the pool's owner (PoolSpec)
MaxCalls  == 4      \* resize / shutdown calls of the pool's owner (PoolSpec)
MaxFiles  == 2      \* length of the discovered file list (MainSpec)
MaxThreads == 2     \* largest num_threads argument (MainSpec)

VARIABLES
    \* ThreadPool (thread_pool.rs:11-15)
    workers,        \* Vec<Worker>: sequence of thread ids whose handle is held
    queue,          \* the mpsc channel: messages sent and not yet received
    rxLock,         \* Mutex around the Receiver: holder thread id, 0 if free
    \* worker threads (thread_pool.rs:86-96)
    wpc,            \* thread id -> position of that thread
    wjob,           \* thread id -> job the thread is running, 0 if none
    spawned,        \* number of threads spawned so far
    \* the thread that owns the pool, inside a pool method
    dpc,            \* position inside new / resize / shutdown, "idle" between calls
    dcnt,           \* remaining iterations of the current for loop
    djoin,          \* thread id of the handle popped and being joined, 0 if none
    call,           \* history of the current / last pool method call
    submitted,      \* number of execute calls made so far
    ran,            \* job -> number of times a worker started it
    fin,            \* job -> number of times a worker finished it
    \* fn main (main.rs)
    mpc,            \* position of the main thread in fn main
    files,          \* Vec<PathBuf> collected from the directory arguments
    num_threads,    \* args[1]
    resize_to,      \* RESIZE_TO, -1 when unset or unparsable
    next,           \* index of the next element of `for path in files`
    cancel_flag,    \* AtomicBool
    status_map,     \* Mutex<HashMap<String, Status>> contents
    smLock,         \* holder of the status_map mutex: 0 free, -1 main, else thread id
    results,        \* Mutex<Vec<FileAnalysis>> contents
    resLock,        \* holder of the results mutex
    wrec,           \* thread id -> is_error of the analysis the thread's job computed
    analyzed,       \* history: number of analyze_file calls made so far
    cancel_at       \* history: submitted when the flag was set, and whether the
                    \* main thread was then not between its load and execute

poolVars == <<workers, queue, rxLock, wpc, wjob, spawned, dpc, dcnt, djoin,
              call, submitted, ran, fin>>
mainVars == <<mpc, files, num_threads, resize_to, next, cancel_flag,
              status_map, smLock, results, resLock, wrec, analyzed, cancel_at>>
vars == <<poolVars, mainVars>>

Threads == 1..MaxSpawn
Jobs    == 1..(IF MaxJobs > MaxFiles THEN MaxJobs ELSE MaxFiles)

\* enum Message (thread_pool.rs:6-9)
NewJob(j)  == [kind |-> "NewJob", job |-> j]
Terminate  == [kind |-> "Terminate", job |-> 0]

\* enum Status (main.rs:18-24)
Queued   == "Queued"
Running  == "Running"
Done     == "Done"
Error    == "Error"
Canceled == "Canceled"
Status   == {Queued, Running, Done, Error, Canceled}

MAIN == -1          \* lock holder id of the main thread

Range(s) == {s[i] : i \in 1..Len(s)}

\* threads that have been spawned and have not left their loop
Live == {t \in Threads : wpc[t] \notin {"none", "exited"}}


\* ------------------------------------------------------------ ThreadPool

\* variant of SizeOk: zero passes the assertion
SizeNonNegative(size) == size >= 0

\* assert!(size > 0) / assert!(new_size > 0)
SizeOk(size) == size > 0

\* variant of Send: the message jumps the queue
SendFront(q, m) == <<m>> \o q

\* mpsc::Sender::send: the channel is FIFO, a message goes to the back
Send(q, m) == Append(q, m)

\* variant of Recv: the message at the back is handed out
RecvLast(q) == q[Len(q)]

\* mpsc::Receiver::recv: the message at the front
Recv(q) == Head(q)

\* variant of ToRemove: one handle too many is removed
ToRemoveOffByOne(current, new_size) == current - new_size + 1

\* let to_remove = current - new_size
ToRemove(current, new_size) == current - new_size

\* variant of ShutdownCount: the last worker gets no Terminate
ShutdownCountShort(ws) == Len(ws) - 1

\* variant of ShutdownCount: a Terminate is sent whether or not a worker is held
ShutdownCountPlusOne(ws) == Len(ws) + 1

\* for _ in &self.workers: one iteration per held worker
ShutdownCount(ws) == Len(ws)

\* variant of JoinDone: the handle is dropped without waiting for the thread
JoinNoWait(pcs, t) == TRUE

\* JoinHandle::join returns once the thread has finished
JoinDone(pcs, t) == pcs[t] = "exited"

\* Vec::pop: the last element
PopWorker(ws) == ws[Len(ws)]

\* Worker::new, called n times: each call spawns a thread that starts its loop
SpawnWorkers(n) ==
    /\ spawned + n <= MaxSpawn
    /\ workers' = workers \o [i \in 1..n |-> spawned + i]
    /\ wpc' = [t \in Threads |->
                 IF t \in (spawned + 1)..(spawned + n) THEN "lock" ELSE wpc[t]]
    /\ spawned' = spawned + n

NewCall(op, arg) ==
    [op |-> op, arg |-> arg, held |-> Len(workers), sent |-> 0, joined |-> 0,
     jobs |-> submitted, n |-> call.n + 1]

\* ThreadPool::new
New(size) ==
    /\ dpc = "init"
    /\ call' = NewCall("new", size)
    /\ IF ~SizeOk(size)
         THEN /\ dpc' = "aborted"
              /\ UNCHANGED <<workers, wpc, spawned>>
         ELSE /\ SpawnWorkers(size)
              /\ dpc' = "idle"
    /\ UNCHANGED <<queue, rxLock, wjob, dcnt, djoin, submitted, ran, fin>>

\* ThreadPool::execute
Execute(j) ==
    /\ dpc = "idle"
    /\ queue' = Send(queue, NewJob(j))
    /\ submitted' = submitted + 1
    /\ UNCHANGED <<workers, rxLock, wpc, wjob, spawned, dpc, dcnt, djoin,
                   call, ran, fin>>

\* ThreadPool::resize, up to the first send of the shrinking branch
Resize(new_size) ==
    /\ dpc = "idle"
    /\ call' = NewCall("resize", new_size)
    /\ LET current == Len(workers) IN
       IF ~SizeOk(new_size)
         THEN /\ dpc' = "panicked"
              /\ UNCHANGED <<workers, wpc, spawned, dcnt>>
         ELSE IF new_size > current
         THEN /\ SpawnWorkers(new_size - current)
              /\ dpc' = "idle"
              /\ UNCHANGED dcnt
         ELSE IF new_size < current
         THEN /\ dpc' = "rs_send"
              /\ dcnt' = ToRemove(current, new_size)
              /\ UNCHANGED <<workers, wpc, spawned>>
         ELSE /\ UNCHANGED <<workers, wpc, spawned, dcnt, dpc>>
    /\ UNCHANGED <<queue, rxLock, wjob, djoin, submitted, ran, fin>>

\* resize: for _ in 0..to_remove { send(Terminate) }
ResizeSend ==
    /\ dpc = "rs_send"
    /\ dcnt > 0
    /\ queue' = Send(queue, Terminate)
    /\ call' = [call EXCEPT !.sent = @ + 1]
    /\ IF dcnt = 1
         THEN dpc' = "rs_pop" /\ dcnt' = ToRemove(call.held, call.arg)
         ELSE dpc' = dpc /\ dcnt' = dcnt - 1
    /\ UNCHANGED <<workers, rxLock, wpc, wjob, spawned, djoin, submitted, ran, fin>>
    /\ UNCHANGED mainVars

\* resize: if let Some(mut w) = self.workers.pop()
ResizePop ==
    /\ dpc = "rs_pop"
    /\ IF workers # <<>>
         THEN /\ djoin' = PopWorker(workers)
              /\ workers' = SubSeq(workers, 1, Len(workers) - 1)
              /\ dpc' = "rs_join"
              /\ UNCHANGED dcnt
         ELSE /\ dcnt' = dcnt - 1
              /\ dpc' = IF dcnt = 1 THEN "idle" ELSE dpc
              /\ UNCHANGED <<djoin, workers>>
    /\ UNCHANGED <<queue, rxLock, wpc, wjob, spawned, call, submitted, ran, fin>>
    /\ UNCHANGED mainVars

\* resize: w.join(), which blocks until the popped worker's thread has finished
ResizeJoin ==
    /\ dpc = "rs_join"
    /\ JoinDone(wpc, djoin)
    /\ djoin' = 0
    /\ dcnt' = dcnt - 1
    /\ dpc' = IF dcnt = 1 THEN "idle" ELSE "rs_pop"
    /\ call' = [call EXCEPT !.joined = @ + 1]
    /\ UNCHANGED <<workers, queue, rxLock, wpc, wjob, spawned, submitted, ran, fin>>
    /\ UNCHANGED mainVars

\* ThreadPool::shutdown, up to the first send; op is "shutdown", or "drop" when
\* called from Drop::drop
Shutdown(op) ==
    /\ call' = NewCall(op, 0)
    /\ dcnt' = ShutdownCount(workers)
    /\ dpc' = IF ShutdownCount(workers) > 0 THEN "sd_send" ELSE "sd_pop"
    /\ UNCHANGED <<workers, queue, rxLock, wpc, wjob, spawned, djoin,
                   submitted, ran, fin>>

\* shutdown: for _ in &self.workers { send(Terminate) }
ShutdownSend ==
    /\ dpc = "sd_send"
    /\ dcnt > 0
    /\ queue' = Send(queue, Terminate)
    /\ call' = [call EXCEPT !.sent = @ + 1]
    /\ dcnt' = dcnt - 1
    /\ dpc' = IF dcnt = 1 THEN "sd_pop" ELSE dpc
    /\ UNCHANGED <<workers, rxLock, wpc, wjob, spawned, djoin, submitted, ran, fin>>
    /\ UNCHANGED mainVars

\* shutdown: while let Some(mut w) = self.workers.pop(); returns on None
ShutdownPop ==
    /\ dpc = "sd_pop"
    /\ IF workers # <<>>
         THEN /\ djoin' = PopWorker(workers)
              /\ workers' = SubSeq(workers, 1, Len(workers) - 1)
              /\ dpc' = "sd_join"
         ELSE /\ dpc' = IF call.op = "drop" THEN "dropped" ELSE "idle"
              /\ UNCHANGED <<djoin, workers>>
    /\ UNCHANGED <<queue, rxLock, wpc, wjob, spawned, dcnt, call, submitted, ran, fin>>
    /\ UNCHANGED mainVars

\* shutdown: w.join()
ShutdownJoin ==
    /\ dpc = "sd_join"
    /\ JoinDone(wpc, djoin)
    /\ djoin' = 0
    /\ dpc' = "sd_pop"
    /\ call' = [call EXCEPT !.joined = @ + 1]
    /\ UNCHANGED <<workers, queue, rxLock, wpc, wjob, spawned, dcnt, submitted, ran, fin>>
    /\ UNCHANGED mainVars

\* ---------------------------------------------------------- worker loop

\* let rx = receiver.lock().unwrap()
WorkerLock(t) ==
    /\ wpc[t] = "lock"
    /\ rxLock = 0
    /\ rxLock' = t
    /\ wpc' = [wpc EXCEPT ![t] = "recv"]
    /\ UNCHANGED <<workers, queue, wjob, spawned, dpc, dcnt, djoin, call,
                   submitted, ran, fin>>
    /\ UNCHANGED mainVars

\* rx.recv() with the lock held, the guard dropped at the end of the block,
\* then the match: a NewJob is called, a Terminate breaks out of the loop.
\* (recv returns Err only once the Sender is dropped, which Drop does after
\* shutdown has joined every worker; no thread is left to see it.)
WorkerRecv(t) ==
    /\ wpc[t] = "recv"
    /\ queue # <<>>
    /\ LET message == Recv(queue) IN
         /\ queue' = Tail(queue)
         /\ rxLock' = 0
         /\ IF message.kind = "NewJob"
              THEN /\ wpc' = [wpc EXCEPT ![t] = "job"]
                   /\ wjob' = [wjob EXCEPT ![t] = message.job]
                   /\ ran' = [ran EXCEPT ![message.job] = @ + 1]
              ELSE /\ wpc' = [wpc EXCEPT ![t] = "exited"]
                   /\ UNCHANGED <<wjob, ran>>
    /\ UNCHANGED <<workers, spawned, dpc, dcnt, djoin, call, submitted, fin>>
    /\ UNCHANGED mainVars

\* the job returns and the worker loops
JobReturn(t) ==
    /\ wpc' = [wpc EXCEPT ![t] = "lock"]
    /\ fin' = [fin EXCEPT ![wjob[t]] = @ + 1]
    /\ wjob' = [wjob EXCEPT ![t] = 0]
    /\ UNCHANGED <<workers, queue, rxLock, spawned, dpc, dcnt, djoin, call,
                   submitted, ran>>

\* ------------------------------------------- PoolSpec: any owner, opaque jobs

\* an opaque job: the closure runs to its end (tests::pool_runs_all_jobs)
RunJob(t) ==
    /\ mpc = "client"
    /\ wpc[t] = "job"
    /\ JobReturn(t)
    /\ UNCHANGED mainVars

ClientNew ==
    /\ mpc = "client"
    /\ \E size \in 0..MaxSize : New(size)
    /\ UNCHANGED mainVars

ClientExecute ==
    /\ mpc = "client"
    /\ submitted < MaxJobs
    /\ Execute(submitted + 1)
    /\ UNCHANGED mainVars

ClientResize ==
    /\ mpc = "client"
    /\ call.n < MaxCalls
    /\ \E new_size \in 0..MaxSize : Resize(new_size)
    /\ UNCHANGED mainVars

ClientShutdown ==
    /\ mpc = "client"
    /\ call.n < MaxCalls
    /\ dpc = "idle"
    /\ Shutdown("shutdown")
    /\ UNCHANGED mainVars

\* impl Drop for ThreadPool: the owner lets go of the pool, or unwinds out of
\* the failed assertion of resize
ClientDrop ==
    /\ mpc = "client"
    /\ dpc \in {"idle", "panicked"}
    /\ Shutdown("drop")
    /\ UNCHANGED mainVars

PoolMethodStep ==
    \/ ResizeSend \/ ResizePop \/ ResizeJoin
    \/ ShutdownSend \/ ShutdownPop \/ ShutdownJoin

WorkerStep == \E t \in Threads : WorkerLock(t) \/ WorkerRecv(t)

PoolInitVars ==
    /\ workers = <<>>
    /\ queue = <<>>
    /\ rxLock = 0
    /\ wpc = [t \in Threads |-> "none"]
    /\ wjob = [t \in Threads |-> 0]
    /\ spawned = 0
    /\ dpc = "init"
    /\ dcnt = 0
    /\ djoin = 0
    /\ call = [op |-> "none", arg |-> 0, held |-> 0, sent |-> 0, joined |-> 0,
               jobs |-> 0, n |-> 0]
    /\ submitted = 0
    /\ ran = [j \in Jobs |-> 0]
    /\ fin = [j \in Jobs |-> 0]

PoolInit ==
    /\ PoolInitVars
    /\ mpc = "client"
    /\ files = <<>>
    /\ num_threads = 0
    /\ resize_to = -1
    /\ next = 1
    /\ cancel_flag = FALSE
    /\ status_map = <<>>
    /\ smLock = 0
    /\ results = <<>>
    /\ resLock = 0
    /\ wrec = [t \in Threads |-> FALSE]
    /\ analyzed = 0
    /\ cancel_at = [sub |-> -1, early |-> FALSE]

PoolNext ==
    \/ ClientNew \/ ClientExecute \/ ClientResize \/ ClientShutdown \/ ClientDrop
    \/ PoolMethodStep
    \/ WorkerStep
    \/ \E t \in Threads : RunJob(t)

PoolSpec == PoolInit /\ [][PoolNext]_vars


\* a scheduler that keeps running every thread that can take a step: the
\* owner inside a pool method, and each worker (a worker waiting for the
\* receiver lock is only guaranteed to get it once it stays free)
PoolFairness ==
    /\ WF_vars(PoolMethodStep)
    /\ \A t \in Threads :
         WF_vars(WorkerLock(t)) /\ WF_vars(WorkerRecv(t)) /\ WF_vars(RunJob(t))

FairPoolSpec == PoolSpec /\ PoolFairness

\* ------------------------------------------------------ claims on the pool

InResize   == dpc \in {"rs_send", "rs_pop", "rs_join"}
InShutdown == dpc \in {"sd_send", "sd_pop", "sd_join"}

\* the last call was shutdown (explicit or from Drop) and it has returned
ShutdownReturned ==
    \/ call.op = "shutdown" /\ dpc = "idle"
    \/ call.op = "drop" /\ dpc = "dropped"

\* the last call was resize and it has returned normally
ResizeReturned == call.op = "resize" /\ dpc = "idle"

\* C1: drain guarantee. No job is ever started twice, and when a shutdown
\* that was called on a pool holding at least one worker has returned, every
\* job passed to execute before that call has been started exactly once and
\* has finished.
C1_DrainGuarantee ==
    /\ \A j \in Jobs : ran[j] <= 1 /\ fin[j] <= ran[j]
    /\ (ShutdownReturned /\ call.held >= 1) =>
          \A j \in 1..call.jobs : ran[j] = 1 /\ fin[j] = 1

\* a shutdown of a pool with fewer workers than queued jobs has returned
C1_Witness ==
    /\ ShutdownReturned
    /\ call.held >= 1
    /\ call.jobs > call.held

\* C2: after resize(k) with k >= 1 has returned, the pool holds exactly k
\* handles, exactly k threads are still in their loop, and they are the
\* threads of the held handles.
C2_ResizeCount ==
    (ResizeReturned /\ call.arg >= 1) =>
        /\ Len(workers) = call.arg
        /\ Cardinality(Live) = call.arg
        /\ Range(workers) = Live

\* a shrinking resize has returned
C2_Witness ==
    /\ ResizeReturned
    /\ call.arg >= 1
    /\ call.held > call.arg
    /\ call.joined = call.held - call.arg

\* C3 (as claimed): under fair scheduling every shrinking resize returns.
C3_ShrinkReturns == InResize ~> (dpc = "idle")

\* C4: shutdown sends one Terminate per held worker; when it has returned the
\* pool holds no handle and no worker thread is left in its loop; and under
\* fair scheduling every shutdown call returns.
C4_ShutdownTerminates ==
    /\ [](ShutdownReturned =>
            /\ call.sent = call.held
            /\ call.joined = call.held
            /\ workers = <<>>
            /\ Live = {})
    /\ (InShutdown ~> ShutdownReturned)

\* a shutdown of a pool holding several workers has returned
C4_Witness ==
    /\ ShutdownReturned
    /\ call.held >= 2
    /\ call.sent = call.held

\* a shutdown call made while the pool holds no worker is in progress
NoOpShutdown == InShutdown /\ call.held = 0

\* C5: a shutdown called when no worker remains (also the one made by Drop)
\* sends nothing, joins nothing, leaves workers, queue and threads as they
\* were, and returns with its next step.
C5_ShutdownIdempotent ==
    [][ /\ (NoOpShutdown \/ NoOpShutdown') =>
              /\ queue' = queue
              /\ workers' = workers
              /\ wpc' = wpc
              /\ djoin' = 0
              /\ call'.sent = 0
              /\ call'.joined = 0
        /\ NoOpShutdown => dpc' \in {"idle", "dropped"} ]_vars

\* the pool was shut down and then dropped: the second shutdown was a no-op
C5_Witness ==
    /\ call.op = "drop"
    /\ dpc = "dropped"
    /\ call.held = 0
    /\ spawned > 0


\* ------------------------------------------------------------------ fn main

Max(S) == CHOOSE x \in S : \A y \in S : y <= x

\* The file lists collect_files can build from the directory arguments: a
\* non-empty list of path names (an empty list returns at main.rs:46-49).
\* Naming the same directory twice, or a directory and one of its
\* sub-directories, lists a path more than once.  Only equality of path
\* names matters, so paths are numbered in order of first occurrence.
FileLists ==
    {s \in UNION {[1..n -> 1..n] : n \in 1..MaxFiles} :
        \A i \in DOMAIN s : s[i] <= 1 + Max({0} \cup {s[k] : k \in 1..(i - 1)})}

\* main.rs:62-67: every p in files is inserted with Status::Queued
InitRegistry(fs) == [p \in Range(fs) |-> Queued]

\* HashMap::insert on a key
Insert(sm, p, st) == [q \in DOMAIN sm \cup {p} |-> IF q = p THEN st ELSE sm[q]]

\* variant of Sweep: the registry is left as it is
SweepNone(sm) == sm

\* variant of Sweep: every entry becomes Canceled, whatever its status
SweepAll(sm) == [p \in DOMAIN sm |-> Canceled]

\* main.rs:95-99: every Queued entry becomes Canceled
Sweep(sm) == [p \in DOMAIN sm |-> IF sm[p] = Queued THEN Canceled ELSE sm[p]]

\* variant of Push: the record replaces the collector's last entry
PushOverLast(rs, r) == IF rs = <<>> THEN <<r>> ELSE [rs EXCEPT ![Len(rs)] = r]

\* main.rs:125: r.push(analysis.clone())
Push(rs, r) == Append(rs, r)

\* variant of FinalStatus: the error list is not looked at
FinalStatusAlwaysDone(is_error) == Done

\* main.rs:130: the status the job writes after analyze_file
FinalStatus(is_error) == IF is_error THEN Error ELSE Done

\* sm.values().filter(|s| matches!(s, ..)).count()
Count(sm, S) == Cardinality({p \in DOMAIN sm : sm[p] \in S})

\* main.rs:136
DoneCount(sm) == Count(sm, {Done, Error, Canceled})

\* the path captured by the job the thread is running
PathOf(t) == files[wjob[t]]

MainInit ==
    /\ PoolInitVars
    /\ mpc = "new"
    /\ files \in FileLists
    /\ num_threads \in 0..MaxThreads
    /\ resize_to \in -1..MaxThreads
    /\ next = 1
    /\ cancel_flag = FALSE
    /\ status_map = InitRegistry(files)
    /\ smLock = 0
    /\ results = <<>>
    /\ resLock = 0
    /\ wrec = [t \in Threads |-> FALSE]
    /\ analyzed = 0
    /\ cancel_at = [sub |-> -1, early |-> FALSE]

\* main.rs:71-76: the input thread stores true once a line has been read
CancelRequest ==
    /\ mpc \notin {"client", "done", "panicked"}
    /\ ~cancel_flag
    /\ cancel_flag' = TRUE
    /\ cancel_at' = [sub |-> submitted, early |-> mpc # "execute"]
    /\ UNCHANGED poolVars
    /\ UNCHANGED <<mpc, files, num_threads, resize_to, next, status_map, smLock,
                   results, resLock, wrec, analyzed>>

\* main.rs:78
MainNew ==
    /\ mpc = "new"
    /\ New(num_threads)
    /\ mpc' = IF SizeOk(num_threads) THEN "resize" ELSE "panicked"
    /\ UNCHANGED <<files, num_threads, resize_to, next, cancel_flag, status_map,
                   smLock, results, resLock, wrec, analyzed, cancel_at>>

\* main.rs:81-86
MainResize ==
    /\ mpc = "resize"
    /\ dpc = "idle"
    /\ IF resize_to >= 0 THEN Resize(resize_to) ELSE UNCHANGED poolVars
    /\ mpc' = "loop"
    /\ UNCHANGED <<files, num_threads, resize_to, next, cancel_flag, status_map,
                   smLock, results, resLock, wrec, analyzed, cancel_at>>

\* the assertion of resize failed: main unwinds, which drops the pool
MainUnwind ==
    /\ mpc # "client"
    /\ dpc = "panicked"
    /\ Shutdown("drop")
    /\ mpc' = "panicked"
    /\ UNCHANGED <<files, num_threads, resize_to, next, cancel_flag, status_map,
                   smLock, results, resLock, wrec, analyzed, cancel_at>>

\* main.rs:92-93: the next element of files, and the load of the flag
MainLoopCheck ==
    /\ mpc = "loop"
    /\ dpc = "idle"
    /\ mpc' = IF next > Len(files) THEN "shutdown"
              ELSE IF cancel_flag THEN "sweep_lock"
              ELSE "execute"
    /\ UNCHANGED poolVars
    /\ UNCHANGED <<files, num_threads, resize_to, next, cancel_flag, status_map,
                   smLock, results, resLock, wrec, analyzed, cancel_at>>

\* main.rs:94
MainSweepLock ==
    /\ mpc = "sweep_lock"
    /\ smLock = 0
    /\ smLock' = MAIN
    /\ mpc' = "sweep"
    /\ UNCHANGED poolVars
    /\ UNCHANGED <<files, num_threads, resize_to, next, cancel_flag, status_map,
                   results, resLock, wrec, analyzed, cancel_at>>

\* main.rs:95-100: the sweep, then break (the guard is dropped)
MainSweep ==
    /\ mpc = "sweep"
    /\ status_map' = Sweep(status_map)
    /\ smLock' = 0
    /\ mpc' = "shutdown"
    /\ UNCHANGED poolVars
    /\ UNCHANGED <<files, num_threads, resize_to, next, cancel_flag,
                   results, resLock, wrec, analyzed, cancel_at>>

\* main.rs:103-148: the job for files[next] is built and passed to execute
MainExecute ==
    /\ mpc = "execute"
    /\ Execute(next)
    /\ next' = next + 1
    /\ mpc' = "loop"
    /\ UNCHANGED <<files, num_threads, resize_to, cancel_flag, status_map,
                   smLock, results, resLock, wrec, analyzed, cancel_at>>

\* main.rs:151
MainShutdown ==
    /\ mpc = "shutdown"
    /\ dpc = "idle"
    /\ Shutdown("shutdown")
    /\ mpc' = "agg_results"
    /\ UNCHANGED <<files, num_threads, resize_to, next, cancel_flag, status_map,
                   smLock, results, resLock, wrec, analyzed, cancel_at>>

\* main.rs:155
MainLockResults ==
    /\ mpc = "agg_results"
    /\ dpc = "idle"
    /\ resLock = 0
    /\ resLock' = MAIN
    /\ mpc' = "agg_status"
    /\ UNCHANGED poolVars
    /\ UNCHANGED <<files, num_threads, resize_to, next, cancel_flag, status_map,
                   smLock, results, wrec, analyzed, cancel_at>>

\* main.rs:156, with the results guard still alive
MainLockStatus ==
    /\ mpc = "agg_status"
    /\ smLock = 0
    /\ smLock' = MAIN
    /\ mpc' = "summary"
    /\ UNCHANGED poolVars
    /\ UNCHANGED <<files, num_threads, resize_to, next, cancel_flag, status_map,
                   results, resLock, wrec, analyzed, cancel_at>>

\* main.rs:158-194: the summary is printed; at the end of main both guards
\* and then the pool are dropped
MainSummary ==
    /\ mpc = "summary"
    /\ smLock' = 0
    /\ resLock' = 0
    /\ Shutdown("drop")
    /\ mpc' = "done"
    /\ UNCHANGED <<files, num_threads, resize_to, next, cancel_flag, status_map,
                   results, wrec, analyzed, cancel_at>>

\* ------------------------------------------------- the job of main.rs:108-148

jobFrame == <<mpc, files, num_threads, resize_to, next, cancel_flag, cancel_at>>
poolFrame == <<workers, queue, rxLock, wjob, spawned, dpc, dcnt, djoin, call,
               submitted, ran, fin>>

\* Each critical section of the job takes one mutex, touches the guarded
\* value and drops the guard (main.rs:110-112, 116-118, 124-126, 129-131,
\* 135-137); it is one step, taken when that mutex is free.

\* variant of AfterCheck: the job goes on whatever the flag says
AfterCheckIgnored(flag) == "r_write"

\* main.rs:109-115: where the job goes after its load of the flag
AfterCheck(flag) == IF flag THEN "c_write" ELSE "r_write"

\* main.rs:109: the load of the flag at the start of the job
JobCheckCancel(t) ==
    /\ mpc # "client"
    /\ wpc[t] = "job"
    /\ wpc' = [wpc EXCEPT ![t] = AfterCheck(cancel_flag)]
    /\ UNCHANGED poolFrame
    /\ UNCHANGED <<jobFrame, status_map, smLock, results, resLock, wrec, analyzed>>

\* main.rs:110-112: Canceled is written and the job returns
JobCancelWrite(t) ==
    /\ wpc[t] = "c_write"
    /\ smLock = 0
    /\ status_map' = Insert(status_map, PathOf(t), Canceled)
    /\ JobReturn(t)
    /\ UNCHANGED <<jobFrame, smLock, results, resLock, wrec, analyzed>>

\* main.rs:115-118
JobRunWrite(t) ==
    /\ wpc[t] = "r_write"
    /\ smLock = 0
    /\ status_map' = Insert(status_map, PathOf(t), Running)
    /\ wpc' = [wpc EXCEPT ![t] = "analyze"]
    /\ UNCHANGED poolFrame
    /\ UNCHANGED <<jobFrame, smLock, results, resLock, wrec, analyzed>>

\* main.rs:120-121: analyze_file reads the file system; whether its error
\* list is empty is not decided by the program
JobAnalyze(t) ==
    /\ wpc[t] = "analyze"
    /\ \E is_error \in BOOLEAN : wrec' = [wrec EXCEPT ![t] = is_error]
    /\ analyzed' = analyzed + 1
    /\ wpc' = [wpc EXCEPT ![t] = "p_write"]
    /\ UNCHANGED poolFrame
    /\ UNCHANGED <<jobFrame, status_map, smLock, results, resLock>>

\* main.rs:123-126
JobPush(t) ==
    /\ wpc[t] = "p_write"
    /\ resLock = 0
    /\ results' = Push(results, [path |-> PathOf(t), is_error |-> wrec[t]])
    /\ wpc' = [wpc EXCEPT ![t] = "f_write"]
    /\ UNCHANGED poolFrame
    /\ UNCHANGED <<jobFrame, status_map, smLock, resLock, wrec, analyzed>>

\* main.rs:128-131
JobFinalWrite(t) ==
    /\ wpc[t] = "f_write"
    /\ smLock = 0
    /\ status_map' = Insert(status_map, PathOf(t), FinalStatus(wrec[t]))
    /\ wpc' = [wpc EXCEPT ![t] = "n_read"]
    /\ UNCHANGED poolFrame
    /\ UNCHANGED <<jobFrame, smLock, results, resLock, wrec, analyzed>>

\* main.rs:134-147: done_count is read, the progress line is printed and the
\* job returns
JobCountRead(t) ==
    /\ wpc[t] = "n_read"
    /\ smLock = 0
    /\ DoneCount(status_map) \in 0..Len(files)
    /\ wrec' = [wrec EXCEPT ![t] = FALSE]
    /\ JobReturn(t)
    /\ UNCHANGED <<jobFrame, status_map, smLock, results, resLock, analyzed>>

JobStep ==
    \E t \in Threads :
        \/ JobCheckCancel(t) \/ JobCancelWrite(t) \/ JobRunWrite(t)
        \/ JobAnalyze(t) \/ JobPush(t) \/ JobFinalWrite(t) \/ JobCountRead(t)

MainStep ==
    \/ MainNew \/ MainResize \/ MainUnwind \/ MainLoopCheck \/ MainSweepLock
    \/ MainSweep \/ MainExecute \/ MainShutdown \/ MainLockResults
    \/ MainLockStatus \/ MainSummary

MainNext ==
    \/ MainStep
    \/ CancelRequest
    \/ PoolMethodStep
    \/ WorkerStep
    \/ JobStep

MainSpec == MainInit /\ [][MainNext]_vars


\* ------------------------------------------------------ claims on fn main

Terminal == {Done, Error, Canceled}

\* shutdown (main.rs:151) has returned to main
RunEnded ==
    \/ mpc \in {"agg_results", "agg_status", "summary"} /\ dpc = "idle"
    \/ mpc = "done"

\* the paths for which a job has been passed to execute
SubmittedPaths == {files[i] : i \in 1..submitted}

\* one step of a status along Queued -> Running -> {Done, Error} or
\* Queued -> Canceled
LegalMove(old, new) ==
    \/ new = old
    \/ old = Queued /\ new \in {Running, Canceled}
    \/ old = Running /\ new \in {Done, Error}

\* C6 (as claimed): every change of a path's status is a step along
\* Queued -> Running -> {Done, Error} or Queued -> Canceled, so a status that
\* is Canceled, Done or Error never changes again.
C6_StatusMonotonic ==
    [][\A p \in DOMAIN status_map : LegalMove(status_map[p], status_map'[p])]_vars

\* C7 (as claimed): a path whose status is Running is next Done or Error,
\* never Canceled.
C7_RunningNeverCanceled ==
    [][\A p \in DOMAIN status_map :
          status_map[p] = Running => status_map'[p] \in {Running, Done, Error}]_vars

\* what C8 promises once the flag was set early enough
NothingRuns ==
    /\ submitted = 0
    /\ analyzed = 0
    /\ results = <<>>
    /\ RunEnded => \A p \in DOMAIN status_map : status_map[p] = Canceled

\* C8 (as claimed): if the flag is set while no job has been submitted yet,
\* no job is ever passed to execute, analyze_file is never called, the
\* collector stays empty and at the end of the run every path is Canceled.
C8_CancelBeforeSubmit == cancel_at.sub = 0 => NothingRuns

\* C8 (amended): the same, if the flag is set before the main thread's first
\* load of it in the dispatch loop.
C8_CancelBeforeFirstLoad == (cancel_at.sub = 0 /\ cancel_at.early) => NothingRuns

\* the run has ended after a cancellation that preceded the dispatch loop's
\* first load, with several files discovered
C8_Witness ==
    /\ RunEnded
    /\ cancel_at.sub = 0
    /\ cancel_at.early
    /\ Len(files) >= 2
    /\ spawned >= 1

\* C9 (as claimed): if the flag was set after M jobs had been submitted, then
\* at the end of the run at least M paths are Done, Error or Canceled and
\* every path for which no job was submitted is Canceled.
C9_CancelAfterM ==
    (RunEnded /\ cancel_at.sub >= 0) =>
        /\ Count(status_map, Terminal) >= cancel_at.sub
        /\ \A p \in DOMAIN status_map \ SubmittedPaths : status_map[p] = Canceled

\* C10 (as claimed): the numbers of registry entries in the five states sum
\* to the length of the file list.
C10_CountsSumToFiles ==
    Count(status_map, {Queued}) + Count(status_map, {Running})
      + Count(status_map, {Done}) + Count(status_map, {Error})
      + Count(status_map, {Canceled}) = Len(files)

\* C11: when shutdown has returned to main, no path is Queued or Running:
\* every submitted job has been started once and has finished, leaving its
\* path Done, Error or Canceled, and every path for which no job was
\* submitted is Canceled.
C11_SettledAtShutdownReturn ==
    RunEnded =>
        /\ \A p \in DOMAIN status_map : status_map[p] \in Terminal
        /\ \A j \in 1..submitted : ran[j] = 1 /\ fin[j] = 1
        /\ \A p \in DOMAIN status_map \ SubmittedPaths : status_map[p] = Canceled

\* shutdown has returned after a loop that cancellation ended, with one job
\* analysed and one path never submitted
C11_Witness ==
    /\ RunEnded
    /\ cancel_flag
    /\ submitted >= 1
    /\ DOMAIN status_map \ SubmittedPaths # {}
    /\ \E p \in DOMAIN status_map : status_map[p] \in {Done, Error}

\* C12: a job that loads the flag as set goes to the Canceled write, and the
\* step that takes it from there writes Canceled for its path and returns to
\* the worker loop: analyze_file is not called, no record is appended, and
\* the path is not written Running, Done or Error by that job.
C12_CanceledJobDoesNoWork ==
    [][\A t \in Threads :
          /\ (wpc[t] = "job" /\ cancel_flag /\ wpc'[t] # "job")
                => wpc'[t] = "c_write"
          /\ (wpc[t] = "c_write" /\ wpc'[t] # "c_write")
                => /\ wpc'[t] = "lock"
                   /\ status_map'[files[wjob[t]]] = Canceled
                   /\ fin'[wjob[t]] = fin[wjob[t]] + 1
                   /\ results' = results
                   /\ analyzed' = analyzed]_vars

\* a job short-circuited by the flag has returned while no analysis was made
C12_Witness ==
    /\ \E j \in 1..submitted : fin[j] = 1 /\ status_map[files[j]] = Canceled
    /\ analyzed = 0
    /\ results = <<>>

\* the main thread has loaded the flag as set, or has left the dispatch loop
PastDispatch == mpc \notin {"new", "resize", "loop", "execute", "client"}

\* C13: once the main thread has loaded the flag as set it makes no further
\* execute call, and the step of its sweep turns every Queued entry to
\* Canceled and leaves every other entry as it was.
C13_SweepOnlyQueued ==
    [][/\ PastDispatch => (submitted' = submitted /\ PastDispatch')
       /\ (mpc = "sweep" /\ mpc' # "sweep") =>
             /\ DOMAIN status_map' = DOMAIN status_map
             /\ \A p \in DOMAIN status_map :
                   status_map'[p] = IF status_map[p] = Queued THEN Canceled
                                    ELSE status_map[p]]_vars

\* the sweep has run while one path was past Queued and another still Queued
C13_Witness ==
    /\ mpc = "shutdown"
    /\ cancel_flag
    /\ next <= Len(files)
    /\ \E p \in DOMAIN status_map : status_map[p] \in {Running, Done, Error}
    /\ \E p \in DOMAIN status_map \ SubmittedPaths : status_map[p] = Canceled

\* the threads inside rx.recv(), holding the receiver lock
Receiving == {t \in Threads : wpc[t] = "recv"}

\* C14: at most one worker is inside recv and it holds the receiver lock; a
\* step that takes a message takes the one at the front and hands it to that
\* worker alone, so a job is started once, by one worker, and a thread leaves
\* its loop only by taking a Terminate that no other thread takes.
C14_OneConsumerFifo ==
    /\ [](/\ Cardinality(Receiving) <= 1
          /\ \A t \in Threads : (rxLock = t) <=> (t \in Receiving)
          /\ \A j \in Jobs : ran[j] <= 1)
    /\ [][/\ Len(queue') < Len(queue) =>
               /\ queue' = Tail(queue)
               /\ \E t \in Receiving :
                     /\ \A u \in Threads \ {t} :
                           wpc'[u] = wpc[u] /\ wjob'[u] = wjob[u]
                     /\ IF Head(queue).kind = "NewJob"
                          THEN /\ wpc'[t] = "job"
                               /\ wjob'[t] = Head(queue).job
                               /\ ran' = [ran EXCEPT ![Head(queue).job] = @ + 1]
                          ELSE /\ wpc'[t] = "exited"
                               /\ ran' = ran
          /\ (ran' # ran \/ \E t \in Threads :
                                wpc[t] # "exited" /\ wpc'[t] = "exited")
                => Len(queue') < Len(queue)]_vars

\* two jobs and a Terminate have been received while a worker is still looping
C14_Witness ==
    /\ ran[1] = 1
    /\ ran[2] = 1
    /\ \E t \in Threads : wpc[t] = "exited"
    /\ \E t, u \in Live : t # u

\* the threads that can hold a mutex
Holders == Threads \cup {MAIN}

\* C15 (as claimed): no thread holds the status_map lock and the results
\* lock at the same time.
C15_NoNestedLocks ==
    \A h \in Holders : ~(smLock = h /\ resLock = h)

\* the threads that have called analyze_file and not yet pushed its record
PushPending == {t \in Threads : wpc[t] = "p_write"}

\* C16: the collector is append-only. Every step leaves it as it was or adds
\* one record at its end, and every analyze_file call is followed by exactly
\* one push: the records plus the pushes still pending count the calls.
C16_AppendOnly ==
    /\ [](Len(results) + Cardinality(PushPending) = analyzed)
    /\ [][\/ results' = results
          \/ /\ Len(results') = Len(results) + 1
             /\ SubSeq(results', 1, Len(results)) = results]_vars

\* two records have been collected
C16_Witness ==
    /\ Len(results) >= 2
    /\ analyzed = Len(results)

\* C17: new(0) fails and no worker was spawned; resize(0) fails, and the step
\* of that call sends nothing, spawns and joins nothing and leaves the held
\* handles as they were.
C17_ZeroSizeRejected ==
    /\ []((call.op = "new" /\ call.arg = 0) =>
             /\ dpc = "aborted"
             /\ spawned = 0
             /\ workers = <<>>
             /\ Live = {})
    /\ []((call.op = "resize" /\ call.arg = 0) =>
             /\ dpc = "panicked"
             /\ call.sent = 0
             /\ call.joined = 0
             /\ Len(workers) = call.held)
    /\ [][(call'.n # call.n /\ call'.op = "resize" /\ call'.arg = 0) =>
             /\ workers' = workers
             /\ queue' = queue
             /\ wpc' = wpc
             /\ spawned' = spawned
             /\ djoin' = djoin]_vars

\* resize(0) has failed on a pool that holds workers
C17_Witness ==
    /\ dpc = "panicked"
    /\ call.op = "resize"
    /\ call.arg = 0
    /\ Len(workers) >= 2

\* the collector holds a record for path p whose error list is non-empty
\* (is_error) or empty (~is_error)
HasRecord(p, is_error) ==
    \E i \in 1..Len(results) :
        results[i].path = p /\ results[i].is_error = is_error

\* C18: a path whose status is Done has a record with an empty error list in
\* the collector, and a path whose status is Error has a record with a
\* non-empty error list.
C18_FinalStatusHasRecord ==
    \A p \in DOMAIN status_map :
        /\ status_map[p] = Done => HasRecord(p, FALSE)
        /\ status_map[p] = Error => HasRecord(p, TRUE)

\* one path has ended Done and another Error
C18_Witness ==
    /\ \E p \in DOMAIN status_map : status_map[p] = Done
    /\ \E p \in DOMAIN status_map : status_map[p] = Error
    /\ Len(results) >= 2

\* the last call was a shrinking resize and it has returned
ShrinkReturned == ResizeReturned /\ call.held > call.arg

\* job j is still waiting in the queue
InQueue(j) == \E i \in 1..Len(queue) : queue[i] = NewJob(j)

\* C19: when a shrinking resize has returned, every job passed to execute
\* before the call has been taken from the queue by a worker, exactly once;
\* none is left behind the Terminate messages or dropped.
C19_ShrinkKeepsJobs ==
    ShrinkReturned =>
        \A j \in 1..call.jobs : ran[j] = 1 /\ ~InQueue(j)

\* a shrinking resize has returned while a job submitted before it is still
\* being run by a remaining worker
C19_Witness ==
    /\ ShrinkReturned
    /\ call.jobs >= 2
    /\ \E j \in 1..call.jobs : fin[j] = 0

\* C20: when shutdown has returned the queue holds no Terminate; a job passed
\* to execute after that return is queued and is not started; and while no
\* worker thread is alive no job is started at all.
C20_ExecuteAfterShutdown ==
    /\ [](ShutdownReturned =>
            /\ \A i \in 1..Len(queue) : queue[i].kind = "NewJob"
            /\ \A j \in (call.jobs + 1)..submitted : ran[j] = 0 /\ InQueue(j))
    /\ [][(Live = {} /\ Live' = {}) => ran' = ran]_vars

\* a job has been passed to execute after shutdown returned on a pool that
\* had workers
C20_Witness ==
    /\ call.op = "shutdown"
    /\ dpc = "idle"
    /\ call.held >= 1
    /\ submitted > call.jobs
    /\ queue # <<>>

====
